---- MODULE Spec2Model ----
(***************************************************************************)
(* Bottle counter: the parameter store (bottle_counter_params.txt written  *)
(* by tune_params.py and read by use_custom_params.py, save_results.py and *)
(* analyze_frame.py), the two detectors with the reconciliation rule of    *)
(* BottleCounter.process_frame, the video loops and extract_frame.         *)
(*                                                                         *)
(* Text is a sequence of tokens: a token is one character (" ", "=", "\n", *)
(* a digit, a sign) or a word without whitespace and without "=" (a key    *)
(* name), so the concatenation of the tokens is the text in the file.      *)
(***************************************************************************)
EXTENDS Integers, Sequences, FiniteSets, TLC

VARIABLES
    file,      \* the parameter file: [exists, lines]
    tb,        \* the tuner's trackbars, positions by name
    tune,      \* the tuner: its position in main and what it read and saved
    run,       \* what the last run of a script did
    counter,   \* BottleCounter's five detection parameters
    frame,     \* the frame last handed to the detectors
    det,       \* what the last detection returned
    vid,       \* a video loop: capture, writer, counters
    ext        \* a call of extract_frame

vars == <<file, tb, tune, run, counter, frame, det, vid, ext>>

----------------------------------------------------------------------------
(* Bounds of the model. *)

MaxLines == 2
MaxCircles == 2
MaxFrames == 3

----------------------------------------------------------------------------
(* Python text primitives. *)

\* A character that a TLA+ string cannot hold (any above U+00FF) is the token
\* "U+" and its code point in hexadecimal.

\* the characters with str.isspace(), which str.strip() drops: U+0009 to
\* U+000D, U+001C to U+0020, U+0085, U+00A0 and the Unicode spaces
Whitespace ==
    {"\t", "\n", "", "\f", "\r", "", "", "", "", " ", "", " "}
    \cup {"U+1680", "U+2000", "U+2001", "U+2002", "U+2003", "U+2004", "U+2005", "U+2006",
          "U+2007", "U+2008", "U+2009", "U+200A", "U+2028", "U+2029", "U+202F", "U+205F", "U+3000"}

\* the whitespace int() drops around the number: the same without the four
\* separators U+001C to U+001F
IntWhitespace == Whitespace \ {"", "", "", ""}

DigitChars == <<"0", "1", "2", "3", "4", "5", "6", "7", "8", "9">>

\* the decimal digits (Unicode category Nd) that int() takes, by script: the
\* d-th character of a block has the value d - 1
DigitBlocks ==
    <<<<"0", "1", "2", "3", "4", "5", "6", "7", "8", "9">>,
      <<"U+0660", "U+0661", "U+0662", "U+0663", "U+0664", "U+0665", "U+0666", "U+0667", "U+0668", "U+0669">>,
      <<"U+06F0", "U+06F1", "U+06F2", "U+06F3", "U+06F4", "U+06F5", "U+06F6", "U+06F7", "U+06F8", "U+06F9">>,
      <<"U+07C0", "U+07C1", "U+07C2", "U+07C3", "U+07C4", "U+07C5", "U+07C6", "U+07C7", "U+07C8", "U+07C9">>,
      <<"U+0966", "U+0967", "U+0968", "U+0969", "U+096A", "U+096B", "U+096C", "U+096D", "U+096E", "U+096F">>,
      <<"U+09E6", "U+09E7", "U+09E8", "U+09E9", "U+09EA", "U+09EB", "U+09EC", "U+09ED", "U+09EE", "U+09EF">>,
      <<"U+0A66", "U+0A67", "U+0A68", "U+0A69", "U+0A6A", "U+0A6B", "U+0A6C", "U+0A6D", "U+0A6E", "U+0A6F">>,
      <<"U+0AE6", "U+0AE7", "U+0AE8", "U+0AE9", "U+0AEA", "U+0AEB", "U+0AEC", "U+0AED", "U+0AEE", "U+0AEF">>,
      <<"U+0B66", "U+0B67", "U+0B68", "U+0B69", "U+0B6A", "U+0B6B", "U+0B6C", "U+0B6D", "U+0B6E", "U+0B6F">>,
      <<"U+0BE6", "U+0BE7", "U+0BE8", "U+0BE9", "U+0BEA", "U+0BEB", "U+0BEC", "U+0BED", "U+0BEE", "U+0BEF">>,
      <<"U+0C66", "U+0C67", "U+0C68", "U+0C69", "U+0C6A", "U+0C6B", "U+0C6C", "U+0C6D", "U+0C6E", "U+0C6F">>,
      <<"U+0CE6", "U+0CE7", "U+0CE8", "U+0CE9", "U+0CEA", "U+0CEB", "U+0CEC", "U+0CED", "U+0CEE", "U+0CEF">>,
      <<"U+0D66", "U+0D67", "U+0D68", "U+0D69", "U+0D6A", "U+0D6B", "U+0D6C", "U+0D6D", "U+0D6E", "U+0D6F">>,
      <<"U+0DE6", "U+0DE7", "U+0DE8", "U+0DE9", "U+0DEA", "U+0DEB", "U+0DEC", "U+0DED", "U+0DEE", "U+0DEF">>,
      <<"U+0E50", "U+0E51", "U+0E52", "U+0E53", "U+0E54", "U+0E55", "U+0E56", "U+0E57", "U+0E58", "U+0E59">>,
      <<"U+0ED0", "U+0ED1", "U+0ED2", "U+0ED3", "U+0ED4", "U+0ED5", "U+0ED6", "U+0ED7", "U+0ED8", "U+0ED9">>,
      <<"U+0F20", "U+0F21", "U+0F22", "U+0F23", "U+0F24", "U+0F25", "U+0F26", "U+0F27", "U+0F28", "U+0F29">>,
      <<"U+1040", "U+1041", "U+1042", "U+1043", "U+1044", "U+1045", "U+1046", "U+1047", "U+1048", "U+1049">>,
      <<"U+1090", "U+1091", "U+1092", "U+1093", "U+1094", "U+1095", "U+1096", "U+1097", "U+1098", "U+1099">>,
      <<"U+17E0", "U+17E1", "U+17E2", "U+17E3", "U+17E4", "U+17E5", "U+17E6", "U+17E7", "U+17E8", "U+17E9">>,
      <<"U+1810", "U+1811", "U+1812", "U+1813", "U+1814", "U+1815", "U+1816", "U+1817", "U+1818", "U+1819">>,
      <<"U+1946", "U+1947", "U+1948", "U+1949", "U+194A", "U+194B", "U+194C", "U+194D", "U+194E", "U+194F">>,
      <<"U+19D0", "U+19D1", "U+19D2", "U+19D3", "U+19D4", "U+19D5", "U+19D6", "U+19D7", "U+19D8", "U+19D9">>,
      <<"U+1A80", "U+1A81", "U+1A82", "U+1A83", "U+1A84", "U+1A85", "U+1A86", "U+1A87", "U+1A88", "U+1A89">>,
      <<"U+1A90", "U+1A91", "U+1A92", "U+1A93", "U+1A94", "U+1A95", "U+1A96", "U+1A97", "U+1A98", "U+1A99">>,
      <<"U+1B50", "U+1B51", "U+1B52", "U+1B53", "U+1B54", "U+1B55", "U+1B56", "U+1B57", "U+1B58", "U+1B59">>,
      <<"U+1BB0", "U+1BB1", "U+1BB2", "U+1BB3", "U+1BB4", "U+1BB5", "U+1BB6", "U+1BB7", "U+1BB8", "U+1BB9">>,
      <<"U+1C40", "U+1C41", "U+1C42", "U+1C43", "U+1C44", "U+1C45", "U+1C46", "U+1C47", "U+1C48", "U+1C49">>,
      <<"U+1C50", "U+1C51", "U+1C52", "U+1C53", "U+1C54", "U+1C55", "U+1C56", "U+1C57", "U+1C58", "U+1C59">>,
      <<"U+A620", "U+A621", "U+A622", "U+A623", "U+A624", "U+A625", "U+A626", "U+A627", "U+A628", "U+A629">>,
      <<"U+A8D0", "U+A8D1", "U+A8D2", "U+A8D3", "U+A8D4", "U+A8D5", "U+A8D6", "U+A8D7", "U+A8D8", "U+A8D9">>,
      <<"U+A900", "U+A901", "U+A902", "U+A903", "U+A904", "U+A905", "U+A906", "U+A907", "U+A908", "U+A909">>,
      <<"U+A9D0", "U+A9D1", "U+A9D2", "U+A9D3", "U+A9D4", "U+A9D5", "U+A9D6", "U+A9D7", "U+A9D8", "U+A9D9">>,
      <<"U+A9F0", "U+A9F1", "U+A9F2", "U+A9F3", "U+A9F4", "U+A9F5", "U+A9F6", "U+A9F7", "U+A9F8", "U+A9F9">>,
      <<"U+AA50", "U+AA51", "U+AA52", "U+AA53", "U+AA54", "U+AA55", "U+AA56", "U+AA57", "U+AA58", "U+AA59">>,
      <<"U+ABF0", "U+ABF1", "U+ABF2", "U+ABF3", "U+ABF4", "U+ABF5", "U+ABF6", "U+ABF7", "U+ABF8", "U+ABF9">>,
      <<"U+FF10", "U+FF11", "U+FF12", "U+FF13", "U+FF14", "U+FF15", "U+FF16", "U+FF17", "U+FF18", "U+FF19">>,
      <<"U+104A0", "U+104A1", "U+104A2", "U+104A3", "U+104A4", "U+104A5", "U+104A6", "U+104A7", "U+104A8", "U+104A9">>,
      <<"U+10D30", "U+10D31", "U+10D32", "U+10D33", "U+10D34", "U+10D35", "U+10D36", "U+10D37", "U+10D38", "U+10D39">>,
      <<"U+11066", "U+11067", "U+11068", "U+11069", "U+1106A", "U+1106B", "U+1106C", "U+1106D", "U+1106E", "U+1106F">>,
      <<"U+110F0", "U+110F1", "U+110F2", "U+110F3", "U+110F4", "U+110F5", "U+110F6", "U+110F7", "U+110F8", "U+110F9">>,
      <<"U+11136", "U+11137", "U+11138", "U+11139", "U+1113A", "U+1113B", "U+1113C", "U+1113D", "U+1113E", "U+1113F">>,
      <<"U+111D0", "U+111D1", "U+111D2", "U+111D3", "U+111D4", "U+111D5", "U+111D6", "U+111D7", "U+111D8", "U+111D9">>,
      <<"U+112F0", "U+112F1", "U+112F2", "U+112F3", "U+112F4", "U+112F5", "U+112F6", "U+112F7", "U+112F8", "U+112F9">>,
      <<"U+11450", "U+11451", "U+11452", "U+11453", "U+11454", "U+11455", "U+11456", "U+11457", "U+11458", "U+11459">>,
      <<"U+114D0", "U+114D1", "U+114D2", "U+114D3", "U+114D4", "U+114D5", "U+114D6", "U+114D7", "U+114D8", "U+114D9">>,
      <<"U+11650", "U+11651", "U+11652", "U+11653", "U+11654", "U+11655", "U+11656", "U+11657", "U+11658", "U+11659">>,
      <<"U+116C0", "U+116C1", "U+116C2", "U+116C3", "U+116C4", "U+116C5", "U+116C6", "U+116C7", "U+116C8", "U+116C9">>,
      <<"U+11730", "U+11731", "U+11732", "U+11733", "U+11734", "U+11735", "U+11736", "U+11737", "U+11738", "U+11739">>,
      <<"U+118E0", "U+118E1", "U+118E2", "U+118E3", "U+118E4", "U+118E5", "U+118E6", "U+118E7", "U+118E8", "U+118E9">>,
      <<"U+11950", "U+11951", "U+11952", "U+11953", "U+11954", "U+11955", "U+11956", "U+11957", "U+11958", "U+11959">>,
      <<"U+11C50", "U+11C51", "U+11C52", "U+11C53", "U+11C54", "U+11C55", "U+11C56", "U+11C57", "U+11C58", "U+11C59">>,
      <<"U+11D50", "U+11D51", "U+11D52", "U+11D53", "U+11D54", "U+11D55", "U+11D56", "U+11D57", "U+11D58", "U+11D59">>,
      <<"U+11DA0", "U+11DA1", "U+11DA2", "U+11DA3", "U+11DA4", "U+11DA5", "U+11DA6", "U+11DA7", "U+11DA8", "U+11DA9">>,
      <<"U+16A60", "U+16A61", "U+16A62", "U+16A63", "U+16A64", "U+16A65", "U+16A66", "U+16A67", "U+16A68", "U+16A69">>,
      <<"U+16AC0", "U+16AC1", "U+16AC2", "U+16AC3", "U+16AC4", "U+16AC5", "U+16AC6", "U+16AC7", "U+16AC8", "U+16AC9">>,
      <<"U+16B50", "U+16B51", "U+16B52", "U+16B53", "U+16B54", "U+16B55", "U+16B56", "U+16B57", "U+16B58", "U+16B59">>,
      <<"U+1D7CE", "U+1D7CF", "U+1D7D0", "U+1D7D1", "U+1D7D2", "U+1D7D3", "U+1D7D4", "U+1D7D5", "U+1D7D6", "U+1D7D7">>,
      <<"U+1D7D8", "U+1D7D9", "U+1D7DA", "U+1D7DB", "U+1D7DC", "U+1D7DD", "U+1D7DE", "U+1D7DF", "U+1D7E0", "U+1D7E1">>,
      <<"U+1D7E2", "U+1D7E3", "U+1D7E4", "U+1D7E5", "U+1D7E6", "U+1D7E7", "U+1D7E8", "U+1D7E9", "U+1D7EA", "U+1D7EB">>,
      <<"U+1D7EC", "U+1D7ED", "U+1D7EE", "U+1D7EF", "U+1D7F0", "U+1D7F1", "U+1D7F2", "U+1D7F3", "U+1D7F4", "U+1D7F5">>,
      <<"U+1D7F6", "U+1D7F7", "U+1D7F8", "U+1D7F9", "U+1D7FA", "U+1D7FB", "U+1D7FC", "U+1D7FD", "U+1D7FE", "U+1D7FF">>,
      <<"U+1E140", "U+1E141", "U+1E142", "U+1E143", "U+1E144", "U+1E145", "U+1E146", "U+1E147", "U+1E148", "U+1E149">>,
      <<"U+1E2F0", "U+1E2F1", "U+1E2F2", "U+1E2F3", "U+1E2F4", "U+1E2F5", "U+1E2F6", "U+1E2F7", "U+1E2F8", "U+1E2F9">>,
      <<"U+1E950", "U+1E951", "U+1E952", "U+1E953", "U+1E954", "U+1E955", "U+1E956", "U+1E957", "U+1E958", "U+1E959">>,
      <<"U+1FBF0", "U+1FBF1", "U+1FBF2", "U+1FBF3", "U+1FBF4", "U+1FBF5", "U+1FBF6", "U+1FBF7", "U+1FBF8", "U+1FBF9">>>>

DigitValue ==
    [c \in {DigitBlocks[b][d] : b \in 1..Len(DigitBlocks), d \in 1..10} |->
        (CHOOSE d \in 1..10 : \E b \in 1..Len(DigitBlocks) : DigitBlocks[b][d] = c) - 1]

IsDigit(c) == c \in DOMAIN DigitValue

DigitVal(c) == DigitValue[c]

Min(S) == CHOOSE m \in S : \A n \in S : m <= n

RECURSIVE lstrip_chars(_, _)
lstrip_chars(s, chars) ==
    IF s # <<>> /\ Head(s) \in chars THEN lstrip_chars(Tail(s), chars) ELSE s

RECURSIVE rstrip_chars(_, _)
rstrip_chars(s, chars) ==
    IF s # <<>> /\ s[Len(s)] \in chars
    THEN rstrip_chars(SubSeq(s, 1, Len(s) - 1), chars)
    ELSE s

lstrip(s) == lstrip_chars(s, Whitespace)

rstrip(s) == rstrip_chars(s, Whitespace)

\* str.strip(): leading and trailing whitespace removed
strip(s) == rstrip(lstrip(s))

\* the separator of line.strip().split(' = ')
Separator == <<" ", "=", " ">>

\* str.split(sep): cut at every occurrence of sep, found left to right and
\* never overlapping; a text without sep is returned as one part
RECURSIVE split(_)
split(s) ==
    LET hits == {i \in 1..(Len(s) - 2) : SubSeq(s, i, i + 2) = Separator}
    IN  IF hits = {}
        THEN <<s>>
        ELSE LET i == Min(hits)
             IN  <<SubSeq(s, 1, i - 1)>> \o split(SubSeq(s, i + 3, Len(s)))

RECURSIVE DigitsValue(_, _)
DigitsValue(s, acc) ==
    IF s = <<>> THEN acc
    ELSE IF Head(s) = "_" THEN DigitsValue(Tail(s), acc)
    ELSE DigitsValue(Tail(s), 10 * acc + DigitVal(Head(s)))

\* the digits from the first one that is not a zero on: the zeros before it
\* add nothing to the value
Significant(s) ==
    LET nz == {i \in 1..Len(s) : IsDigit(s[i]) /\ DigitVal(s[i]) # 0}
    IN  IF nz = {} THEN <<>> ELSE SubSeq(s, Min(nz), Len(s))

\* sys.get_int_max_str_digits(): int() refuses a text of more digits
MaxStrDigits == 4300

\* int(text): surrounding whitespace ignored, an optional sign, then digits
\* of any script (single underscores allowed between digits), at most
\* MaxStrDigits of them; anything else raises ValueError, here ok = FALSE
int(v) ==
    LET t == rstrip_chars(lstrip_chars(v, IntWhitespace), IntWhitespace)
        signed == t # <<>> /\ Head(t) \in {"+", "-"}
        body == IF signed THEN Tail(t) ELSE t
        ok == /\ body # <<>>
              /\ \A i \in 1..Len(body) : IsDigit(body[i]) \/ body[i] = "_"
              /\ Cardinality({i \in 1..Len(body) : IsDigit(body[i])}) <= MaxStrDigits
              /\ IsDigit(body[1]) /\ IsDigit(body[Len(body)])
              /\ \A i \in 1..(Len(body) - 1) : ~(body[i] = "_" /\ body[i + 1] = "_")
        mag == IF ok THEN DigitsValue(Significant(body), 0) ELSE 0
    IN  [ok |-> ok,
         val |-> IF signed /\ Head(t) = "-" THEN 0 - mag ELSE mag]

RECURSIVE NatStr(_)
NatStr(n) ==
    IF n < 10 THEN <<DigitChars[n + 1]>>
    ELSE NatStr(n \div 10) \o <<DigitChars[(n % 10) + 1]>>

\* the text of an int inside an f-string: f"{n}"
str(n) == IF n < 0 THEN <<"-">> \o NatStr(0 - n) ELSE NatStr(n)

----------------------------------------------------------------------------
(* Dictionaries: functions from keys (token sequences) to integers. *)

EmptyDict == [k \in {} |-> 0]

\* params[key] = value
setitem(d, key, value) ==
    [k \in (DOMAIN d) \cup {key} |-> IF k = key THEN value ELSE d[k]]

\* params.get(key, default)
get(d, key, default) == IF <<key>> \in DOMAIN d THEN d[<<key>>] ELSE default

\* the result of a load: the dictionary, or None (ok = FALSE)
None == [ok |-> FALSE, dict |-> EmptyDict]

\* "if params:" is false for None and for the empty dictionary
Truthy(p) == p.ok /\ DOMAIN p.dict # {}

----------------------------------------------------------------------------
(* load_parameters, the same in the three scripts that load. *)

RECURSIVE load_lines_strict(_, _)
load_lines_strict(lines, params) ==
    IF lines = <<>> THEN [ok |-> TRUE, dict |-> params]
    ELSE LET parts == split(strip(Head(lines)))
         IN  IF Len(parts) # 2 THEN None
             ELSE LET n == int(parts[2])
                  IN  IF ~n.ok \/ parts[1] \notin
                            {<<"min_radius">>, <<"max_radius">>, <<"min_distance">>,
                             <<"param1">>, <<"param2">>}
                      THEN None
                      ELSE load_lines_strict(Tail(lines),
                                             setitem(params, parts[1], n.val))

\* the loop over the lines: the unpacking of the split into key, value and
\* the int() of the value raise, and the except clause returns None
RECURSIVE load_lines(_, _)
load_lines(lines, params) ==
    IF lines = <<>> THEN [ok |-> TRUE, dict |-> params]
    ELSE LET parts == split(strip(Head(lines)))
         IN  IF Len(parts) # 2 THEN None
             ELSE LET n == int(parts[2])
                  IN  IF ~n.ok THEN None
                      ELSE load_lines(Tail(lines),
                                      setitem(params, parts[1], n.val))

\* the text of a file: what was written to it, piece after piece
RECURSIVE join(_)
join(pieces) ==
    IF pieces = <<>> THEN <<>> ELSE Head(pieces) \o join(Tail(pieces))

\* open(path, 'r') reads with universal newlines: "\r\n" and a lone "\r"
\* arrive as "\n"
RECURSIVE universal_newlines(_)
universal_newlines(t) ==
    IF t = <<>> THEN <<>>
    ELSE IF Head(t) = "\r"
         THEN <<"\n">> \o universal_newlines(IF Len(t) >= 2 /\ t[2] = "\n"
                                              THEN Tail(Tail(t)) ELSE Tail(t))
         ELSE <<Head(t)>> \o universal_newlines(Tail(t))

\* "for line in f": the text cut after every "\n", the rest after the last
\* one being a line too when it is not empty
RECURSIVE readlines(_)
readlines(t) ==
    LET ends == {i \in 1..Len(t) : t[i] = "\n"}
    IN  IF t = <<>> THEN <<>>
        ELSE IF ends = {} THEN <<t>>
        ELSE <<SubSeq(t, 1, Min(ends))>> \o readlines(SubSeq(t, Min(ends) + 1, Len(t)))

\* the lines the loop of load_parameters sees
file_lines(f) == readlines(universal_newlines(join(f.lines)))

\* open() of a missing file raises too
load_parameters(f) ==
    IF ~f.exists THEN None ELSE load_lines(file_lines(f), EmptyDict)

----------------------------------------------------------------------------
(* BottleCounter and the parameters applied to it. *)

\* BottleCounter.__init__: the default detection parameters
BottleCounter ==
    [min_radius |-> 15, max_radius |-> 60, min_distance |-> 20,
     param1 |-> 30, param2 |-> 30]

\* counter.x = params.get('x', counter.x), for the five parameters
apply_get(c, d) ==
    [min_radius |-> get(d, "min_radius", c.min_radius),
     max_radius |-> get(d, "max_radius", c.max_radius),
     min_distance |-> get(d, "min_distance", c.min_distance),
     param1 |-> get(d, "param1", c.param1),
     param2 |-> get(d, "param2", c.param2)]

\* what a run of a script did: the load, the counter it built, the
\* processing function it handed the counter to, the detectors reached and
\* whether the run ended in an uncaught cv2.error
\* (readable: the image decodes, or the video opens and delivers a frame)
NoRun ==
    [tool |-> "none", args |-> [kind |-> "none", readable |-> FALSE, p |-> FALSE],
     tried |-> FALSE, loaded |-> None, created |-> FALSE,
     counter |-> BottleCounter, entry |-> "none", dets |-> {}, exc |-> FALSE]

Detectors == {"hough", "contour"}

\* cv2.HoughCircles refuses a min_dist, param1 or param2 that is not
\* positive with cv2.error; the scripts pass the values on unchecked
HoughRejects(c) == c.min_distance <= 0 \/ c.param1 <= 0 \/ c.param2 <= 0

\* the detectors a first frame reaches under the counter c: the hough
\* detector is called first, and when it raises the contour detector is
\* never called
reached(c) == IF HoughRejects(c) THEN {"hough"} ELSE Detectors

\* the run r after the counter c was handed to the detectors
detecting(r, c) == [r EXCEPT !.dets = reached(c), !.exc = HoughRejects(c)]

\* use_custom_params.main; args.kind is "image", "video" or "camera"
use_custom_main(f, args) ==
    LET base == [NoRun EXCEPT !.tool = "use_custom", !.args = args]
        params == load_parameters(f)
        entry == IF args.kind = "image" THEN "process_image" ELSE "process_video"
        c == apply_get(BottleCounter, params.dict)
        made == [base EXCEPT !.tried = TRUE, !.loaded = params,
                             !.created = TRUE, !.counter = c, !.entry = entry]
    IN  IF ~f.exists THEN base
        ELSE IF ~params.ok
             THEN [base EXCEPT !.tried = TRUE, !.loaded = params]
             ELSE IF args.readable THEN detecting(made, c) ELSE made

\* save_results.main with process_video_and_save's assignment of its
\* arguments to the counter; args.p: a -p option was given
save_results_main(f, args) ==
    LET base == [NoRun EXCEPT !.tool = "save_results", !.args = args]
        params == load_parameters(f)
        c == apply_get(BottleCounter, params.dict)
        started == [base EXCEPT !.created = TRUE,
                                !.entry = "process_video_and_save"]
        loaded == [started EXCEPT !.tried = TRUE, !.loaded = params,
                                  !.counter = c]
    IN  IF args.p /\ f.exists
        THEN IF Truthy(params)
             THEN IF args.readable THEN detecting(loaded, c) ELSE loaded
             ELSE [base EXCEPT !.tried = TRUE, !.loaded = params]
        ELSE IF args.readable THEN detecting(started, BottleCounter) ELSE started

\* analyze_frame.analyze_frame; args.p: a params_file was given
analyze_frame(f, args) ==
    LET base == [NoRun EXCEPT !.tool = "analyze_frame", !.args = args]
        params == load_parameters(f)
        c == apply_get(BottleCounter, params.dict)
        made == [base EXCEPT !.created = TRUE, !.entry = "detectors"]
    IN  IF ~args.readable THEN base
        ELSE IF args.p /\ f.exists
             THEN IF Truthy(params)
                  THEN detecting([made EXCEPT !.tried = TRUE, !.loaded = params,
                                              !.counter = c], c)
                  ELSE detecting([made EXCEPT !.tried = TRUE, !.loaded = params],
                                 BottleCounter)
             ELSE detecting(made, BottleCounter)

----------------------------------------------------------------------------
(* tune_params.py: the trackbars, the loop and the save on 's'. *)

ParamNames == {"min_radius", "max_radius", "min_distance", "param1", "param2"}

\* create_trackbars: the initial position and the maximum of each trackbar
\* (the minimum of an OpenCV trackbar is 0)
TrackbarInit ==
    [min_radius |-> 15, max_radius |-> 60, min_distance |-> 20,
     param1 |-> 30, param2 |-> 30, method |-> 0]

TrackbarMax ==
    [min_radius |-> 100, max_radius |-> 150, min_distance |-> 100,
     param1 |-> 300, param2 |-> 100, method |-> 2]

\* the positions the user is taken to move a trackbar to
TrackbarStops ==
    [min_radius |-> {15, 100}, max_radius |-> {60},
     min_distance |-> {0, 20}, param1 |-> {30}, param2 |-> {30},
     method |-> {0, 1, 2}]

\* get_trackbar_values, without the method
trackbar_params(t) ==
    [min_radius |-> t.min_radius, max_radius |-> t.max_radius,
     min_distance |-> t.min_distance, param1 |-> t.param1,
     param2 |-> t.param2]

save_line(key, n) == <<key, " ", "=", " ">> \o str(n) \o <<"\n">>

save_text_nospace(c) ==
    <<<<"min_radius", "=">> \o str(c.min_radius) \o <<"\n">>,
      <<"max_radius", "=">> \o str(c.max_radius) \o <<"\n">>,
      <<"min_distance", "=">> \o str(c.min_distance) \o <<"\n">>,
      <<"param1", "=">> \o str(c.param1) \o <<"\n">>,
      <<"param2", "=">> \o str(c.param2) \o <<"\n">> >>

\* the five f.write calls of the 's' key
save_text(c) ==
    <<save_line("min_radius", c.min_radius),
      save_line("max_radius", c.max_radius),
      save_line("min_distance", c.min_distance),
      save_line("param1", c.param1),
      save_line("param2", c.param2)>>

NoFile == [exists |-> FALSE, lines |-> <<>>]

\* the tuner is not running. pc: "off", "loop" (at the top of a pass),
\* "wait" (in cv2.waitKey), "saving" (the parameter file is open for
\* writing), "quit", "raised"; read: the values the pass read from the
\* trackbars; saved, params: a save was completed, and its values
TuneOff ==
    [pc |-> "off", read |-> trackbar_params(TrackbarInit),
     saved |-> FALSE, params |-> trackbar_params(TrackbarInit)]

\* main up to the loop: the image is checked and read, the window and the
\* trackbars are created
TunerStart(imageOk) ==
    /\ tune.pc \in {"off", "quit", "raised"}
    /\ tune' = [tune EXCEPT !.pc = IF imageOk THEN "loop" ELSE "off"]
    /\ tb' = IF imageOk THEN TrackbarInit ELSE tb
    /\ UNCHANGED <<file, run, counter, frame, det, vid, ext>>

\* the user drags a trackbar: the window takes the event while the loop is
\* in cv2.waitKey
TunerMove(name, v) ==
    /\ tune.pc = "wait"
    /\ v \in 0..TrackbarMax[name]
    /\ tb' = [tb EXCEPT ![name] = v]
    /\ UNCHANGED <<file, tune, run, counter, frame, det, vid, ext>>

\* a pass of the loop up to cv2.waitKey: the trackbars are read, the
\* detectors of the chosen method run with the values as they are, the
\* result is shown
TunerIterate(raises) ==
    LET c == trackbar_params(tb)
        hough == tb.method \in {0, 2}
        contour == tb.method \in {1, 2}
        raised == hough /\ raises
        called == (IF hough THEN {"hough"} ELSE {})
                  \cup (IF contour /\ ~raised THEN {"contour"} ELSE {})
    IN  /\ tune.pc = "loop"
        /\ raises = HoughRejects(c)
        /\ run' = [NoRun EXCEPT !.tool = "tune_params", !.counter = c,
                                !.entry = "detectors", !.dets = called,
                                !.exc = raised]
        /\ tune' = IF raised THEN [tune EXCEPT !.pc = "raised"]
                   ELSE [tune EXCEPT !.pc = "wait", !.read = c]
        /\ UNCHANGED <<file, tb, counter, frame, det, vid, ext>>

\* the key cv2.waitKey returns: 'q' leaves the loop, 's' opens the
\* parameter file for writing, which empties it, any other key or none
\* starts the next pass
TunerKey(key) ==
    /\ tune.pc = "wait"
    /\ tune' = [tune EXCEPT !.pc = IF key = "q" THEN "quit"
                                   ELSE IF key = "s" THEN "saving" ELSE "loop"]
    /\ file' = IF key = "s" THEN [exists |-> TRUE, lines |-> <<>>] ELSE file
    /\ UNCHANGED <<tb, run, counter, frame, det, vid, ext>>

\* the five f.write calls with the values the pass read, on disk when the
\* with block closes the file
TunerSave ==
    /\ tune.pc = "saving"
    /\ file' = [exists |-> TRUE, lines |-> save_text(tune.read)]
    /\ tune' = [tune EXCEPT !.pc = "loop", !.saved = TRUE, !.params = tune.read]
    /\ UNCHANGED <<tb, run, counter, frame, det, vid, ext>>

----------------------------------------------------------------------------
(* Runs of the scripts that load the parameter file. *)

ScriptArgs ==
    [kind : {"image", "video", "camera"}, readable : BOOLEAN, p : BOOLEAN]

UseCustomMain(args) ==
    /\ args \in ScriptArgs /\ args.p
    /\ run' = use_custom_main(file, args)
    /\ UNCHANGED <<file, tb, tune, counter, frame, det, vid, ext>>

SaveResultsMain(args) ==
    /\ args \in ScriptArgs /\ args.kind = "video"
    /\ run' = save_results_main(file, args)
    /\ UNCHANGED <<file, tb, tune, counter, frame, det, vid, ext>>

AnalyzeFrame(args) ==
    /\ args \in ScriptArgs /\ args.kind = "image"
    /\ run' = analyze_frame(file, args)
    /\ UNCHANGED <<file, tb, tune, counter, frame, det, vid, ext>>

----------------------------------------------------------------------------
(* The detectors and process_frame.  Lengths that OpenCV returns as floats *)
(* are held in half pixels (x2 = 2 * x), areas in half square pixels.      *)

\* np.around: to the nearest integer, a half to the even neighbour
around(v2) ==
    LET q == v2 \div 2
    IN  IF v2 % 2 = 0 THEN q ELSE IF q % 2 = 0 THEN q ELSE q + 1

\* np.uint16
uint16(n) == n % 65536

\* int() of a float: the fraction is dropped
trunc(v2) == IF v2 >= 0 THEN v2 \div 2 ELSE 0 - ((0 - v2) \div 2)

\* the loop over circles[0, :] after np.uint16(np.around(circles))
RECURSIVE hough_bottles(_)
hough_bottles(circles) ==
    IF circles = <<>> THEN <<>>
    ELSE <<[x |-> uint16(around(Head(circles).x2)),
            y |-> uint16(around(Head(circles).y2)),
            r |-> uint16(around(Head(circles).r2))]>>
         \o hough_bottles(Tail(circles))

\* detect_bottles_hough: f.circles is what cv2.HoughCircles returns for the
\* frame under the counter's parameters (no circle: None, here <<>>)
detect_bottles_hough(c, f) == hough_bottles(f.circles)

\* if area < 500: continue
MinArea == 500

\* np.pi = 3.141592653589793, digit by digit
PiDigits == <<3, 1, 4, 1, 5, 9, 2, 6, 5, 3, 5, 8, 9, 7, 9, 3>>

\* whether rem / den, written out in decimal from its i-th digit on, is
\* above the digits of np.pi from the i-th on (i = 1: the integer part); a
\* quotient that has all the digits of np.pi is not above it
RECURSIVE AbovePi(_, _, _)
AbovePi(rem, den, i) ==
    LET d == rem \div den
    IN  IF d > PiDigits[i] THEN TRUE
        ELSE IF d < PiDigits[i] THEN FALSE
        ELSE IF i = Len(PiDigits) THEN FALSE
        ELSE AbovePi((rem % den) * 10, den, i + 1)

\* circularity < 0.5, with circularity = 4 * np.pi * (area / perimeter^2),
\* or 0 when the perimeter is 0: with area = area2 / 2 that is
\* perimeter^2 / (4 * area2) > np.pi
NotCircular(area2, perimeter) ==
    IF perimeter > 0
    THEN area2 <= 0 \/ AbovePi(perimeter * perimeter, 4 * area2, 1)
    ELSE TRUE

RECURSIVE contour_bottles_noband(_, _)
contour_bottles_noband(c, contours) ==
    IF contours = <<>> THEN <<>>
    ELSE LET k == Head(contours)
             rest == contour_bottles_noband(c, Tail(contours))
         IN  IF k.area2 < 2 * MinArea THEN rest
             ELSE IF NotCircular(k.area2, k.perimeter) THEN rest
             ELSE IF 2 * c.min_radius <= k.r2
                  THEN <<[x |-> trunc(k.x2), y |-> trunc(k.y2), r |-> trunc(k.r2)]>>
                       \o rest
                  ELSE rest

RECURSIVE contour_bottles_nocirc(_, _)
contour_bottles_nocirc(c, contours) ==
    IF contours = <<>> THEN <<>>
    ELSE LET k == Head(contours)
             rest == contour_bottles_nocirc(c, Tail(contours))
         IN  IF k.area2 < 2 * MinArea THEN rest
             ELSE IF 2 * c.min_radius <= k.r2 /\ k.r2 <= 2 * c.max_radius
                  THEN <<[x |-> trunc(k.x2), y |-> trunc(k.y2), r |-> trunc(k.r2)]>>
                       \o rest
                  ELSE rest

\* the loop over the contours: area, circularity, then the radius of the
\* minimal enclosing circle against the band
RECURSIVE contour_bottles(_, _)
contour_bottles(c, contours) ==
    IF contours = <<>> THEN <<>>
    ELSE LET k == Head(contours)
             rest == contour_bottles(c, Tail(contours))
         IN  IF k.area2 < 2 * MinArea THEN rest
             ELSE IF NotCircular(k.area2, k.perimeter) THEN rest
             ELSE IF 2 * c.min_radius <= k.r2 /\ k.r2 <= 2 * c.max_radius
                  THEN <<[x |-> trunc(k.x2), y |-> trunc(k.y2), r |-> trunc(k.r2)]>>
                       \o rest
                  ELSE rest

\* detect_bottles_contour: f.contours is what cv2.findContours returns, each
\* contour with its contourArea, arcLength and minEnclosingCircle
detect_bottles_contour(c, f) == contour_bottles(c, f.contours)

choose_bottles_ge(bottles_hough, bottles_contour) ==
    IF Len(bottles_hough) >= Len(bottles_contour)
    THEN bottles_hough ELSE bottles_contour

\* bottles = bottles_hough if len(bottles_hough) > len(bottles_contour)
\*           else bottles_contour
choose_bottles(bottles_hough, bottles_contour) ==
    IF Len(bottles_hough) > Len(bottles_contour)
    THEN bottles_hough ELSE bottles_contour

\* an image without detections: what cv2.HoughCircles and cv2.findContours
\* find in it, and the overlay marks drawn into its pixels
NoFrame == [circles |-> <<>>, contours |-> <<>>, drawn |-> <<>>]

\* cv2.circle for each of the bottles and cv2.putText of their count, into
\* the pixels of image
draw(image, bottles) == [image EXCEPT !.drawn = @ \o bottles]

\* no detection made; params and input: the counter's parameters and the
\* frame as the call gets them, self and frame: the same two as the call
\* leaves them, ran: the detectors that returned, result: the overlay
NoDet ==
    [by |-> "none", params |-> BottleCounter, input |-> NoFrame,
     raised |-> FALSE, ran |-> {},
     hough |-> <<>>, contour |-> <<>>, bottles |-> <<>>, bottle_count |-> 0,
     self |-> BottleCounter, frame |-> NoFrame, result |-> NoFrame]

process_frame_inplace(c, f, raised) ==
    LET bottles_hough == detect_bottles_hough(c, f)
        bottles_contour == detect_bottles_contour(c, f)
        bottles == choose_bottles(bottles_hough, bottles_contour)
    IN  IF raised
        THEN [NoDet EXCEPT !.by = "process_frame", !.params = c, !.raised = TRUE,
                           !.input = f, !.self = c, !.frame = f]
        ELSE [by |-> "process_frame", params |-> c, input |-> f, raised |-> FALSE,
              ran |-> Detectors,
              hough |-> bottles_hough, contour |-> bottles_contour,
              bottles |-> bottles, bottle_count |-> Len(bottles),
              self |-> c, frame |-> draw(f, bottles), result |-> draw(f, bottles)]

\* BottleCounter.process_frame; raised: cv2.HoughCircles raised cv2.error.
\* The circles and the count are drawn into result, a copy of the frame.
process_frame(c, f, raised) ==
    LET bottles_hough == detect_bottles_hough(c, f)
        bottles_contour == detect_bottles_contour(c, f)
        bottles == choose_bottles(bottles_hough, bottles_contour)
    IN  IF raised
        THEN [NoDet EXCEPT !.by = "process_frame", !.params = c, !.raised = TRUE,
                           !.input = f, !.self = c, !.frame = f]
        ELSE [by |-> "process_frame", params |-> c, input |-> f, raised |-> FALSE,
              ran |-> Detectors,
              hough |-> bottles_hough, contour |-> bottles_contour,
              bottles |-> bottles, bottle_count |-> Len(bottles),
              self |-> c, frame |-> f, result |-> draw(f, bottles)]

\* the detection part of analyze_frame.analyze_frame: both detectors, then
\* the combined result, drawn into a copy of the frame
analyze_detect(c, f, raised) ==
    LET bottles_hough == detect_bottles_hough(c, f)
        bottles_contour == detect_bottles_contour(c, f)
        bottles == IF Len(bottles_hough) > Len(bottles_contour)
                   THEN bottles_hough ELSE bottles_contour
    IN  IF raised
        THEN [NoDet EXCEPT !.by = "analyze_frame", !.params = c, !.raised = TRUE,
                           !.input = f, !.self = c, !.frame = f]
        ELSE [by |-> "analyze_frame", params |-> c, input |-> f, raised |-> FALSE,
              ran |-> Detectors,
              hough |-> bottles_hough, contour |-> bottles_contour,
              bottles |-> bottles, bottle_count |-> Len(bottles),
              self |-> c, frame |-> f, result |-> draw(f, bottles)]

\* the detection part of one pass of the tuner's loop, by method (with
\* method 2 the pass assigns no bottle_count; it is held as 0); the circles
\* of each detector that ran are drawn into result, a copy of the frame
tune_detect(c, f, method, raised) ==
    LET bottles_hough == IF method \in {0, 2} THEN detect_bottles_hough(c, f) ELSE <<>>
        bottles_contour == IF method \in {1, 2} THEN detect_bottles_contour(c, f) ELSE <<>>
    IN  IF raised
        THEN [NoDet EXCEPT !.by = "tune_params", !.params = c, !.raised = TRUE,
                           !.input = f, !.self = c, !.frame = f]
        ELSE [by |-> "tune_params", params |-> c, input |-> f, raised |-> FALSE,
              ran |-> IF method = 0 THEN {"hough"}
                      ELSE IF method = 1 THEN {"contour"} ELSE Detectors,
              hough |-> bottles_hough, contour |-> bottles_contour,
              bottles |-> <<>>,
              bottle_count |-> IF method = 0 THEN Len(bottles_hough)
                               ELSE IF method = 1 THEN Len(bottles_contour) ELSE 0,
              self |-> c, frame |-> f,
              result |-> draw(draw(f, bottles_hough), bottles_contour)]

----------------------------------------------------------------------------
(* The parameter files the runs start from. *)

KeyLine(key, value) == <<key, " ", "=", " ">> \o value \o <<"\n">>

\* well-formed lines of recognized keys
KnownLines ==
    {KeyLine("min_radius", <<"2", "5">>),
     KeyLine("max_radius", <<"4", "0">>),
     KeyLine("min_distance", <<"1", "0">>),
     KeyLine("param1", <<"5", "0">>),
     KeyLine("param2", <<"0">>),
     <<"min_radius", " ", "=", " ", "7", "0">>,
     KeyLine("max_radius", <<"-", "5">>)}

\* well-formed lines of other keys
UnknownLines ==
    {KeyLine("threshold", <<"5">>),
     <<"min_area", " ", "=", " ", "5", "0", "0">>}

\* lines that are not "<key> = <int>"
OddLines ==
    {<<"min_radius", " ", ":", " ", "1", "5", "\n">>,
     <<"min_radius", "=", "1", "5", "\n">>,
     <<"min_radius", " ", " ", "=", " ", " ", "1", "5", "\n">>,
     <<"max_radius", " ", "=", " ", "4", "0", " ", "=", " ", "2", "\n">>,
     KeyLine("param1", <<"abc">>),
     <<"\n">>}

SampleLines == KnownLines \cup UnknownLines \cup OddLines

\* the texts of up to MaxLines lines: a line before the last ends in "\n"
FileTexts ==
    {t \in UNION {[1..n -> SampleLines] : n \in 0..MaxLines} :
         file_lines([exists |-> TRUE, lines |-> t]) = t}

Files == {NoFile} \cup {[exists |-> TRUE, lines |-> t] : t \in FileTexts}

----------------------------------------------------------------------------
(* State outside a run. *)

\* no video loop running; pc is "none", "start", "loop" (at the top of a
\* pass), "wait" (process_video in cv2.waitKey), "returned", "raised".
\* total: the frames the source delivers before a read fails; total_frames:
\* its CAP_PROP_FRAME_COUNT; outOpened: the writer opened its file; error:
\* the exception that left the function; counts: the bottle counts of the
\* frames processed; written: the frames in the output file
NoVid ==
    [fn |-> "none", pc |-> "none", opened |-> FALSE, total |-> 0, reads |-> 0,
     total_frames |-> 0, outOpened |-> FALSE, error |-> "none",
     capReleased |-> FALSE, outReleased |-> FALSE, quit |-> FALSE, failed |-> 0,
     frame_count |-> 0, max_bottles |-> 0, counts |-> <<>>, written |-> <<>>,
     result |-> "none"]

\* no call of extract_frame; pc is "none", "start", "returned", "raised".
\* video: what the file at video_path is (whether it opens, its
\* CAP_PROP_FRAME_COUNT, whether a read at the position set delivers a
\* frame); imwrite: what cv2.imwrite does with output_path ("written",
\* "not_written" when it returns False, "raises"); pos: the position set,
\* "none" before; written: the images in the file at output_path, by their
\* position
NoExt ==
    [pc |-> "none", frame_number |-> 0,
     video |-> [opens |-> FALSE, total_frames |-> 0, reads |-> FALSE],
     imwrite |-> "written",
     opened |-> FALSE, pos |-> "none", ret |-> FALSE, written |-> <<>>,
     released |-> FALSE, result |-> "none"]

----------------------------------------------------------------------------
(* Spec: the scripts that load a parameter file, run on any of Files. *)

Init ==
    /\ file \in Files
    /\ tb = TrackbarInit
    /\ tune = TuneOff
    /\ run = NoRun
    /\ counter = BottleCounter
    /\ frame = NoFrame
    /\ det = NoDet
    /\ vid = NoVid
    /\ ext = NoExt

Next ==
    \E args \in ScriptArgs :
        \/ UseCustomMain(args)
        \/ SaveResultsMain(args)
        \/ AnalyzeFrame(args)

Spec == Init /\ [][Next]_vars

(* SpecTune: the tuner writes the parameter file and the scripts load it. *)

InitTune ==
    /\ file = NoFile
    /\ tb = TrackbarInit
    /\ tune = TuneOff
    /\ run = NoRun
    /\ counter = BottleCounter
    /\ frame = NoFrame
    /\ det = NoDet
    /\ vid = NoVid
    /\ ext = NoExt

NextTune ==
    \/ \E imageOk \in BOOLEAN : TunerStart(imageOk)
    \/ \E name \in DOMAIN TrackbarStops :
           \E v \in TrackbarStops[name] : TunerMove(name, v)
    \/ \E raises \in BOOLEAN : TunerIterate(raises)
    \/ \E key \in {"q", "s", "none"} : TunerKey(key)
    \/ TunerSave
    \/ \E args \in ScriptArgs :
           \/ UseCustomMain(args)
           \/ SaveResultsMain(args)
           \/ AnalyzeFrame(args)

SpecTune == InitTune /\ [][NextTune]_vars

----------------------------------------------------------------------------
(* The parameter file format as documented: "<key> = <int>", one per line. *)

Symbols ==
    Whitespace \cup {"=", ":", "+", "-", "_"} \cup {DigitChars[d] : d \in 1..10}

IsWord(tok) == tok \notin Symbols

\* an optional sign and at least one digit
IsIntegerText(v) ==
    LET body == IF v # <<>> /\ Head(v) \in {"+", "-"} THEN Tail(v) ELSE v
    IN  body # <<>> /\ \A i \in 1..Len(body) : IsDigit(body[i])

\* the line, without the whitespace around it, is a key, the separator
\* " = " and an integer
IsEntry(l) ==
    LET t == strip(l)
    IN  /\ Len(t) >= 5
        /\ IsWord(t[1])
        /\ SubSeq(t, 2, 4) = Separator
        /\ IsIntegerText(SubSeq(t, 5, Len(t)))

EntryKey(l) == strip(l)[1]

EntryValue(l) ==
    LET t == strip(l)
        v == SubSeq(t, 5, Len(t))
        body == IF Head(v) \in {"+", "-"} THEN Tail(v) ELSE v
    IN  IF Head(v) = "-" THEN 0 - DigitsValue(body, 0) ELSE DigitsValue(body, 0)

\* every line is an entry of a recognized key, and no key comes twice
KnownEntriesOnly(f) ==
    /\ f.exists
    /\ \A i \in 1..Len(f.lines) :
           IsEntry(f.lines[i]) /\ EntryKey(f.lines[i]) \in ParamNames
    /\ \A i, j \in 1..Len(f.lines) :
           EntryKey(f.lines[i]) = EntryKey(f.lines[j]) => i = j

\* the file's value of a key, or the documented default
Documented(f, key) ==
    IF \E i \in 1..Len(f.lines) : EntryKey(f.lines[i]) = key
    THEN EntryValue(f.lines[CHOOSE i \in 1..Len(f.lines) : EntryKey(f.lines[i]) = key])
    ELSE BottleCounter[key]

Loaders == {"use_custom", "save_results", "analyze_frame"}

\* the run was given a parameter file and an input it can read
Served == run.tool \in Loaders /\ run.args.p /\ run.args.readable

\* C2: a file of well-formed lines of any subset of the five keys loads, and
\* the detectors run with the file's value of each key present and the
\* default of each key absent.
C2_MissingKeysDefault ==
    (Served /\ KnownEntriesOnly(file)) =>
        /\ run.loaded.ok
        /\ run.dets # {}
        /\ \A key \in ParamNames : run.counter[key] = Documented(file, key)

\* C3: when the load fails, the caller falls back to the default parameters
\* and still runs detection on its input.
C3_FallbackOnLoadFailure ==
    (Served /\ run.tried /\ ~run.loaded.ok) =>
        /\ run.dets = Detectors
        /\ run.counter = BottleCounter

\* C4: a file with a line that is not "<key> = <int>" with exactly the
\* separator " = " fails to load as a whole.
C4_ExactSeparator ==
    (run.tool \in Loaders /\ run.tried
        /\ \E i \in 1..Len(file.lines) : ~IsEntry(file.lines[i]))
    => ~run.loaded.ok

\* malformed: a wrong separator (the line is not a key followed by exactly
\* " = ") or a value that is no integer
WrongSeparator(l) ==
    LET t == strip(l)
    IN  ~(Len(t) >= 4 /\ IsWord(t[1]) /\ SubSeq(t, 2, 4) = Separator)

NonIntegerValue(l) ==
    LET t == strip(l)
    IN  ~WrongSeparator(l) /\ ~IsIntegerText(SubSeq(t, 5, Len(t)))

Malformed(l) == WrongSeparator(l) \/ NonIntegerValue(l)

\* C5: a malformed line at any position makes the load return None, never
\* the parameters of the well-formed lines, and no value of such a file
\* reaches a detector.
C5_AllOrNothing ==
    (run.tool \in Loaders /\ run.tried
        /\ \E i \in 1..Len(file.lines) : Malformed(file.lines[i]))
    => /\ run.loaded = None
       /\ run.dets # {} => run.counter = BottleCounter

\* the places of the separator in a text
SepAt(t) == {i \in 1..(Len(t) - 2) : SubSeq(t, i, i + 2) = Separator}

\* a line the loader cannot take: not two texts around one " = ", or a
\* second text that is no integer
Unparsable(l) ==
    LET t == strip(l)
    IN  \/ SepAt(t) = {}
        \/ \E i \in SepAt(t) : i >= Min(SepAt(t)) + 3
        \/ ~IsIntegerText(strip(SubSeq(t, Min(SepAt(t)) + 3, Len(t))))

\* every file with an unparsable line, at any position, loads to None, and
\* a run on it reaches the detectors with the defaults only
UnparsableLineFailsLoad ==
    (run.tool \in Loaders /\ run.tried
        /\ \E i \in 1..Len(file.lines) : Unparsable(file.lines[i]))
    => /\ run.loaded = None
       /\ run.dets # {} => run.counter = BottleCounter

InsertLine(f, i, l) ==
    [f EXCEPT !.lines = SubSeq(f.lines, 1, i) \o <<l>>
                        \o SubSeq(f.lines, i + 1, Len(f.lines))]

rerun(tool, f, args) ==
    IF tool = "use_custom" THEN use_custom_main(f, args)
    ELSE analyze_frame(f, args)

\* C6: a line of an unknown key added anywhere to the file changes neither
\* whether the load succeeds nor the five values the counter gets.
C6_UnknownKeysIgnored ==
    (run.tool \in {"use_custom", "analyze_frame"} /\ file.exists) =>
        \A u \in UnknownLines, i \in 0..Len(file.lines) :
            LET longer == InsertLine(file, i, u)
                other == rerun(run.tool, longer, run.args)
            IN  file_lines(longer) = longer.lines =>
                /\ other.loaded.ok = run.loaded.ok
                /\ other.created = run.created
                /\ other.counter = run.counter
                /\ other.dets = run.dets

C6_Witness ==
    /\ run.tool = "use_custom" /\ run.loaded.ok /\ run.dets = Detectors
    /\ Len(file.lines) = 2
    /\ file.lines[1] \in UnknownLines
    /\ file.lines[2] \in KnownLines
    /\ run.counter # BottleCounter
    /\ <<"threshold">> \in DOMAIN run.loaded.dict

FiveKeys == {<<k>> : k \in ParamNames}

\* C7: the file the tuner saves loads to exactly the five saved values under
\* the five keys, and saving the loaded values and loading again gives the
\* same parameters; the text of every trackbar position reads back as it.
C7_RoundTrip ==
    (tune.saved /\ tune.pc # "saving") =>
        LET loaded == load_parameters(file)
            again == load_parameters(
                         [exists |-> TRUE,
                          lines |-> save_text(apply_get(BottleCounter, loaded.dict))])
        IN  /\ loaded.ok
            /\ DOMAIN loaded.dict = FiveKeys
            /\ \A k \in ParamNames : loaded.dict[<<k>>] = tune.params[k]
            /\ again = loaded
            /\ \A n \in 0..TrackbarMax.param1 : int(str(n)) = [ok |-> TRUE, val |-> n]

C7_Witness ==
    /\ tune.saved
    /\ tune.pc # "saving"
    /\ tune.params.min_radius = 100 /\ tune.params.min_distance = 20
    /\ run.tool = "use_custom" /\ run.dets = Detectors
    /\ run.counter = tune.params

\* minRadius < maxRadius, both >= 0, and the other three >= 1
ValidParameters(c) ==
    /\ 0 <= c.min_radius /\ c.min_radius < c.max_radius
    /\ c.min_distance >= 1 /\ c.param1 >= 1 /\ c.param2 >= 1

\* C9: no detector is invoked with parameters outside the required bounds.
C9_InvalidRejected == run.dets # {} => ValidParameters(run.counter)

----------------------------------------------------------------------------
(* SpecDetect: one frame handed to the detectors of a counter. *)

\* the parameter sets the detectors are run with
Counters ==
    {BottleCounter,
     [BottleCounter EXCEPT !.min_radius = 25, !.max_radius = 40],
     [BottleCounter EXCEPT !.min_radius = 0],
     [BottleCounter EXCEPT !.min_radius = 70],
     [BottleCounter EXCEPT !.param2 = 0]}

BandValid(c) == 0 <= c.min_radius /\ c.min_radius < c.max_radius

\* the radii cv2.HoughCircles may report: inside [minRadius, maxRadius] when
\* that is a band, and whatever the library makes of the values otherwise
HoughRadiiSeq(c) ==
    IF BandValid(c)
    THEN SelectSeq(<<2 * c.min_radius + 1, 2 * c.max_radius, 2 * c.min_radius + 3,
                     2 * c.max_radius - 1>>,
                   LAMBDA r2 : 2 * c.min_radius <= r2 /\ r2 <= 2 * c.max_radius)
    ELSE <<1, 2 * c.min_radius + 1, 2 * c.max_radius + 4, 2 * c.max_radius + 5>>

HoughCircleSeq(c) ==
    [i \in 1..Len(HoughRadiiSeq(c)) |-> [x2 |-> 41, y2 |-> 63, r2 |-> HoughRadiiSeq(c)[i]]]

HoughCircleSet(c) == {HoughCircleSeq(c)[i] : i \in 1..3}

\* contours cv2.findContours may return: round ones at, inside and outside
\* the band, one too small, one not round, one without perimeter
ContourSeq(c) ==
    <<[area2 |-> 4000, perimeter |-> 160, x2 |-> 81, y2 |-> 120, r2 |-> 2 * c.max_radius],
      [area2 |-> 4000, perimeter |-> 160, x2 |-> 200, y2 |-> 200, r2 |-> 2 * c.max_radius + 3],
      [area2 |-> 1000, perimeter |-> 100, x2 |-> 30, y2 |-> 31, r2 |-> 2 * c.min_radius + 1],
      [area2 |-> 999, perimeter |-> 80, x2 |-> 10, y2 |-> 10, r2 |-> c.min_radius + c.max_radius],
      [area2 |-> 4000, perimeter |-> 160, x2 |-> 300, y2 |-> 200, r2 |-> 2 * c.min_radius - 1],
      [area2 |-> 1000, perimeter |-> 200, x2 |-> 50, y2 |-> 50, r2 |-> c.min_radius + c.max_radius],
      [area2 |-> 0, perimeter |-> 0, x2 |-> 70, y2 |-> 70, r2 |-> c.min_radius + c.max_radius]>>

ContourSet(c) == {ContourSeq(c)[i] : i \in 1..Len(ContourSeq(c))}

SeqsUpTo(S, n) == UNION {[1..k -> S] : k \in 0..n}

Frames(c) ==
    [circles : SeqsUpTo(HoughCircleSet(c), MaxCircles),
     contours : SeqsUpTo(ContourSet(c), MaxCircles),
     drawn : {<<>>}]

\* BottleCounter.process_image, after the image was read
ProcessImage(raises) ==
    /\ det.by = "none"
    /\ raises = HoughRejects(counter)
    /\ det' = process_frame(counter, frame, raises)
    /\ counter' = det'.self
    /\ frame' = det'.frame
    /\ UNCHANGED <<file, tb, tune, run, vid, ext>>

\* analyze_frame, after the image was read and the parameters were applied
AnalyzeDetect(raises) ==
    /\ det.by = "none"
    /\ raises = HoughRejects(counter)
    /\ det' = analyze_detect(counter, frame, raises)
    /\ counter' = det'.self
    /\ frame' = det'.frame
    /\ UNCHANGED <<file, tb, tune, run, vid, ext>>

\* one pass of the tuner's loop on its image
TunerDetect(method, raises) ==
    /\ det.by = "none"
    /\ raises = (HoughRejects(counter) /\ method \in {0, 2})
    /\ det' = tune_detect(counter, frame, method, raises)
    /\ counter' = det'.self
    /\ frame' = det'.frame
    /\ UNCHANGED <<file, tb, tune, run, vid, ext>>

InitDetect ==
    /\ file = NoFile
    /\ tb = TrackbarInit
    /\ tune = TuneOff
    /\ run = NoRun
    /\ counter \in Counters
    /\ frame \in Frames(counter)
    /\ det = NoDet
    /\ vid = NoVid
    /\ ext = NoExt

NextDetect ==
    \/ \E raises \in BOOLEAN : ProcessImage(raises)
    \/ \E raises \in BOOLEAN : AnalyzeDetect(raises)
    \/ \E method \in {0, 1, 2}, raises \in BOOLEAN : TunerDetect(method, raises)

SpecDetect == InitDetect /\ [][NextDetect]_vars

\* C1: the combined result is the hough result exactly when it has strictly
\* more circles than the contour result, the contour result otherwise (a tie
\* included), and the reported count is the length of the chosen result.
C1_Reconcile ==
    (det.by \in {"process_frame", "analyze_frame"} /\ ~det.raised) =>
        /\ Len(det.hough) > Len(det.contour) => det.bottles = det.hough
        /\ Len(det.hough) <= Len(det.contour) => det.bottles = det.contour
        /\ det.bottles = det.hough =>
               (Len(det.hough) > Len(det.contour) \/ det.hough = det.contour)
        /\ det.bottle_count = Len(det.bottles)

\* a tie of two non-empty, different results
C1_Witness ==
    /\ det.by = "process_frame" /\ ~det.raised
    /\ Len(det.hough) = 2 /\ Len(det.contour) = 2
    /\ det.hough # det.contour
    /\ det.bottles = det.contour /\ det.bottle_count = 2

\* C8: with 0 <= minRadius < maxRadius, every circle either detector emits
\* has minRadius <= r <= maxRadius, r being the integer emitted.
C8_RadiusBand ==
    (det.by # "none" /\ ~det.raised /\ BandValid(det.params)) =>
        /\ \A i \in 1..Len(det.hough) :
               /\ det.params.min_radius <= det.hough[i].r
               /\ det.hough[i].r <= det.params.max_radius
        /\ \A i \in 1..Len(det.contour) :
               /\ det.params.min_radius <= det.contour[i].r
               /\ det.contour[i].r <= det.params.max_radius

\* both detectors emitted, the contour detector after dropping a contour
\* whose circle is wider than the band
C8_Witness ==
    /\ det.by = "process_frame" /\ ~det.raised /\ BandValid(det.params)
    /\ Len(det.hough) = 2 /\ Len(det.contour) = 1
    /\ Len(frame.contours) = 2
    /\ \E i \in 1..2 : frame.contours[i].r2 = 2 * det.params.max_radius + 3
    /\ det.contour[1].r = det.params.min_radius
    /\ \E i \in 1..2 : det.hough[i].r = det.params.min_radius + 2

\* the boundary has area >= 500 (area2 is twice the area)
BigEnough(k) == k.area2 >= 2 * MinArea

\* circularity >= 0.5, the circularity being 4 * pi * area / perimeter^2 and
\* 0 for a perimeter of 0: perimeter^2 / (4 * area2) is not above pi
RoundEnough(k) ==
    /\ k.perimeter > 0
    /\ k.area2 > 0
    /\ ~AbovePi(k.perimeter * k.perimeter, 4 * k.area2, 1)

\* the radius of the enclosing circle is inside [min_radius, max_radius]
InBand(c, k) == 2 * c.min_radius <= k.r2 /\ k.r2 <= 2 * c.max_radius

\* the places, in the order of discovery, of the boundaries passing all tests
Passing(c, contours) ==
    {i \in 1..Len(contours) :
         BigEnough(contours[i]) /\ RoundEnough(contours[i]) /\ InBand(c, contours[i])}

\* the n-th smallest member of a set of numbers
RECURSIVE Nth(_, _)
Nth(S, n) ==
    LET m == CHOOSE x \in S : \A y \in S : x <= y
    IN  IF n = 1 THEN m ELSE Nth(S \ {m}, n - 1)

\* C11: the contour detector emits one circle for each boundary with area
\* >= 500, circularity >= 0.5 (0 for a zero perimeter) and a radius inside
\* the band, and none for any other boundary; the circles come in the order
\* in which the boundaries were discovered, each the truncated centre and
\* radius of its boundary.
C11_ContourFilter ==
    ("contour" \in det.ran) =>
        LET pass == Passing(det.params, frame.contours)
        IN  /\ Len(det.contour) = Cardinality(pass)
            /\ \A n \in 1..Len(det.contour) :
                   LET k == frame.contours[Nth(pass, n)]
                   IN  /\ k.area2 >= 2 * MinArea
                       /\ k.perimeter # 0
                       /\ det.contour[n] = [x |-> trunc(k.x2), y |-> trunc(k.y2),
                                            r |-> trunc(k.r2)]

\* a boundary that is large but not round comes first and is dropped; the
\* round one after it is emitted
C11_Witness ==
    /\ det.by = "tune_params" /\ det.ran = {"contour"}
    /\ Len(frame.contours) = 2
    /\ BigEnough(frame.contours[1])
    /\ ~RoundEnough(frame.contours[1])
    /\ InBand(det.params, frame.contours[1])
    /\ Len(det.contour) = 1
    /\ det.contour[1].x = trunc(frame.contours[2].x2)

----------------------------------------------------------------------------
(* SpecVideo: BottleCounter.process_video and process_video_and_save. *)

Prefix(q, n) == SubSeq(q, 1, IF n < Len(q) THEN n ELSE Len(q))

\* the frames a video delivers: the first h circles and the first k contours
VideoFrames(c) ==
    {[circles |-> Prefix(HoughCircleSeq(c), h), contours |-> Prefix(ContourSeq(c), k),
      drawn |-> <<>>] :
         h \in 0..MaxCircles, k \in 0..MaxCircles}

VideoFns == {"process_video", "process_video_and_save"}

\* if frame_count % 10 == 0: the progress line
ProgressEvery == 10

\* the lengths of the videos tried: up to MaxFrames frames, and one that
\* reaches the progress line
VideoLengths == (0..MaxFrames) \cup {ProgressEvery}

\* a frame in which nothing is found
PlainFrame == [circles |-> <<>>, contours |-> <<>>, drawn |-> <<>>]

\* cv2.VideoCapture(source) and the isOpened test; n: the frames the source
\* delivers before a read fails. process_video_and_save reads
\* CAP_PROP_FRAME_COUNT (count: the number of frames, and for the long video
\* also 0, as for a source that does not know it) and creates the writer,
\* which opens its file or not (writer); nothing tests the writer.
\* process_video reads no frame count and has no writer.
VideoOpen(ok, n, count, writer) ==
    LET saving == vid.fn = "process_video_and_save"
    IN  /\ vid.pc = "start"
        /\ n \in VideoLengths
        /\ (ok /\ saving) => count \in (IF n > MaxFrames THEN {0, n} ELSE {n})
        /\ ~(ok /\ saving) => (count = 0 /\ ~writer)
        /\ vid' = IF ok
                  THEN [vid EXCEPT !.pc = "loop", !.opened = TRUE, !.total = n,
                                   !.total_frames = count, !.outOpened = writer]
                  ELSE [vid EXCEPT !.pc = "returned",
                                   !.result = IF saving THEN "False" ELSE "None"]
        /\ UNCHANGED <<file, tb, tune, run, counter, frame, det, ext>>

\* the rest of a pass of process_video_and_save after process_frame returned
\* d for the frame just read: the maximum, the frame number, out.write of
\* the result (n: which read the written frame came from), which does
\* nothing on a writer that did not open, and on every tenth frame the
\* progress line, whose frame_count/total_frames raises ZeroDivisionError
\* when total_frames is 0
save_pass(v, d) ==
    LET frame_count == v.frame_count + 1
        w == [v EXCEPT !.reads = @ + 1,
                       !.max_bottles = IF d.bottle_count > @ THEN d.bottle_count ELSE @,
                       !.frame_count = frame_count,
                       !.counts = Append(@, d.bottle_count),
                       !.written = IF v.outOpened
                                   THEN Append(@, [n |-> v.reads + 1,
                                                   count |-> d.bottle_count])
                                   ELSE @]
    IN  IF frame_count % ProgressEvery = 0 /\ v.total_frames = 0
        THEN [w EXCEPT !.pc = "raised", !.error = "ZeroDivisionError"]
        ELSE w

\* a pass of the loop with a frame read: process_frame, then the count,
\* the frame number, the write and the progress line
\* (process_video_and_save), or the display up to cv2.waitKey
\* (process_video); an error raised in the pass is caught nowhere and leaves
\* the function. The frames of a video longer than MaxFrames are plain.
VideoFrame(f, raises) ==
    LET d == process_frame(counter, f, raises)
        saving == vid.fn = "process_video_and_save"
    IN  /\ vid.pc = "loop"
        /\ vid.reads < vid.total
        /\ f \in VideoFrames(counter)
        /\ vid.total > MaxFrames => f = PlainFrame
        /\ raises = HoughRejects(counter)
        /\ det' = d
        /\ counter' = d.self
        /\ frame' = d.frame
        /\ vid' =
             IF d.raised
             THEN [vid EXCEPT !.pc = "raised", !.reads = @ + 1, !.failed = @ + 1,
                              !.error = "cv2.error"]
             ELSE IF saving
             THEN save_pass(vid, d)
             ELSE [vid EXCEPT !.pc = "wait", !.reads = @ + 1]
        /\ UNCHANGED <<file, tb, tune, run, ext>>

\* process_video: the key cv2.waitKey returns. 'q' breaks out of the loop to
\* the clean-up, 's' saves the result under a name made of the time, any
\* other key or none starts the next pass
VideoKey(key) ==
    /\ vid.pc = "wait"
    /\ vid' = IF key = "q"
              THEN [vid EXCEPT !.quit = TRUE, !.pc = "returned",
                               !.capReleased = TRUE, !.result = "None"]
              ELSE [vid EXCEPT !.pc = "loop"]
    /\ UNCHANGED <<file, tb, tune, run, counter, frame, det, ext>>

\* the pass whose read fails: break, then the clean-up after the loop
VideoEnd ==
    /\ vid.pc = "loop"
    /\ vid.reads = vid.total
    /\ vid' = IF vid.fn = "process_video_and_save"
              THEN [vid EXCEPT !.pc = "returned", !.capReleased = TRUE,
                               !.outReleased = TRUE, !.result = "True"]
              ELSE [vid EXCEPT !.pc = "returned", !.capReleased = TRUE,
                               !.result = "None"]
    /\ UNCHANGED <<file, tb, tune, run, counter, frame, det, ext>>

InitVideo ==
    /\ file = NoFile
    /\ tb = TrackbarInit
    /\ tune = TuneOff
    /\ run = NoRun
    /\ counter \in Counters
    /\ frame = NoFrame
    /\ det = NoDet
    /\ \E fn \in VideoFns : vid = [NoVid EXCEPT !.fn = fn, !.pc = "start"]
    /\ ext = NoExt

NextVideo ==
    \/ \E ok \in BOOLEAN, n \in VideoLengths, count \in VideoLengths, writer \in BOOLEAN :
           VideoOpen(ok, n, count, writer)
    \/ \E f \in VideoFrames(counter), raises \in BOOLEAN : VideoFrame(f, raises)
    \/ \E key \in {"q", "s", "none"} : VideoKey(key)
    \/ VideoEnd

SpecVideo == InitVideo /\ [][NextVideo]_vars

\* C12: a call of process_frame, and with it of both detectors, leaves the
\* five parameters of the counter and the frame it was given as they were:
\* from one frame of a video to the next the parameters never change and the
\* frame read is, after its processing, the frame as read, while the circles
\* are drawn into the result.
C12_InputsUnchanged ==
    [][/\ counter' = counter
       /\ vid'.reads > vid.reads =>
              /\ det'.by = "process_frame"
              /\ det'.params = counter
              /\ \A k \in ParamNames : det'.self[k] = counter[k]
              /\ frame' = det'.input
              /\ frame'.drawn = <<>>
              /\ ~det'.raised => det'.result = draw(frame', det'.bottles)]_vars

\* the second frame of a video was processed and bottles were drawn into
\* its result, under parameters other than the defaults
C12_Witness ==
    /\ vid.reads >= 2 /\ vid.pc = "loop"
    /\ det.by = "process_frame" /\ det.bottle_count >= 1
    /\ det.result.drawn = det.bottles
    /\ frame = det.input /\ frame.drawn = <<>>
    /\ counter = det.params /\ counter # BottleCounter

\* the largest of the bottle counts, 0 for none
MaxCount(counts) ==
    IF counts = <<>> THEN 0
    ELSE CHOOSE m \in {counts[i] : i \in 1..Len(counts)} :
             \A i \in 1..Len(counts) : counts[i] <= m

\* C13: process_video_and_save leaves its loop only at the first failed
\* read; frame_count is the number of frames read, each of them was
\* processed and is in the output once and in read order, max_bottles is the
\* largest of their counts (0 for none, and as the largest of a list that
\* only grows it never decreases), and when the loop is over the capture and
\* the writer are released and True is returned.
C13_SaveLoop ==
    (vid.fn = "process_video_and_save" /\ vid.opened) =>
        /\ vid.pc \in {"loop", "returned"}
        /\ vid.reads <= vid.total
        /\ vid.frame_count = vid.reads
        /\ Len(vid.counts) = vid.reads
        /\ Len(vid.written) = vid.reads
        /\ \A i \in 1..Len(vid.written) :
               vid.written[i] = [n |-> i, count |-> vid.counts[i]]
        /\ vid.max_bottles = MaxCount(vid.counts)
        /\ vid.pc = "loop" =>
               (~vid.capReleased /\ ~vid.outReleased /\ vid.result = "none")
        /\ vid.pc = "returned" =>
               /\ vid.reads = vid.total
               /\ vid.capReleased /\ vid.outReleased
               /\ vid.result = "True"

\* C10: an error in the processing of one frame does not end the loop: the
\* frames the source delivers after it are read, and the capture (and the
\* writer) are released when the function is left.
C10_LoopSurvivesFrameError ==
    vid.failed > 0 =>
        /\ vid.pc \in {"loop", "wait", "returned"}
        /\ vid.pc = "returned" =>
               /\ vid.capReleased
               /\ vid.fn = "process_video_and_save" => vid.outReleased
               /\ vid.reads = vid.total \/ vid.quit

----------------------------------------------------------------------------
(* SpecExtract: extract_frame.extract_frame. *)

\* the largest CAP_PROP_FRAME_COUNT of the videos tried
MaxTotal == 4

\* if frame_number >= total_frames: frame_number = total_frames // 2
frame_position(frame_number, total_frames) ==
    IF frame_number >= total_frames THEN total_frames \div 2 ELSE frame_number

\* extract_frame(video_path, output_path, frame_number) on the call e; the
\* value cv2.imwrite returns is not looked at, and its error is caught
\* nowhere
extract_frame(e) ==
    IF ~e.video.opens
    THEN [e EXCEPT !.pc = "returned", !.result = "False"]
    ELSE LET total_frames == e.video.total_frames
             pos == frame_position(e.frame_number, total_frames)
             ret == e.video.reads
         IN  IF ~ret
             THEN [e EXCEPT !.pc = "returned", !.opened = TRUE, !.pos = pos,
                            !.ret = FALSE, !.released = TRUE, !.result = "False"]
             ELSE IF e.imwrite = "raises"
             THEN [e EXCEPT !.pc = "raised", !.opened = TRUE, !.pos = pos,
                            !.ret = TRUE]
             ELSE [e EXCEPT !.pc = "returned", !.opened = TRUE, !.pos = pos,
                            !.ret = TRUE,
                            !.written = IF e.imwrite = "written"
                                        THEN Append(@, pos) ELSE @,
                            !.released = TRUE, !.result = "True"]

\* the calls: any --frame from -1 on, on a video that opens or not, with
\* any frame count, the read delivering a frame or not, and an output_path
\* that cv2.imwrite writes, cannot write or refuses
ExtractCalls ==
    {[NoExt EXCEPT !.pc = "start", !.frame_number = n,
                   !.video = [opens |-> o, total_frames |-> t, reads |-> r],
                   !.imwrite = w] :
         n \in (0 - 1)..(MaxTotal + 2), o \in BOOLEAN, t \in 0..MaxTotal,
         r \in BOOLEAN, w \in {"written", "not_written", "raises"}}

ExtractFrame ==
    /\ ext.pc = "start"
    /\ ext' = extract_frame(ext)
    /\ UNCHANGED <<file, tb, tune, run, counter, frame, det, vid>>

InitExtract ==
    /\ file = NoFile
    /\ tb = TrackbarInit
    /\ tune = TuneOff
    /\ run = NoRun
    /\ counter = BottleCounter
    /\ frame = NoFrame
    /\ det = NoDet
    /\ vid = NoVid
    /\ ext \in ExtractCalls

NextExtract == ExtractFrame

SpecExtract == InitExtract /\ [][NextExtract]_vars

\* C14: the position set is total_frames // 2 when the frame_number asked
\* for is >= total_frames and the frame_number otherwise, so it is inside
\* [0, total_frames) when total_frames > 0 and frame_number >= 0; True is
\* returned only after a frame was read and written, False when the video
\* does not open or the read fails, and the capture is released on every
\* return after it opened.
C14_ExtractFrame ==
    ext.pc = "returned" =>
        /\ ext.result \in {"True", "False"}
        /\ ext.opened = ext.video.opens
        /\ ext.opened =>
               /\ ext.frame_number >= ext.video.total_frames =>
                      2 * ext.pos \in {ext.video.total_frames, ext.video.total_frames - 1}
               /\ ext.frame_number < ext.video.total_frames =>
                      ext.pos = ext.frame_number
               /\ (ext.video.total_frames > 0 /\ ext.frame_number >= 0) =>
                      (0 <= ext.pos /\ ext.pos < ext.video.total_frames)
               /\ ext.released
        /\ ext.result = "True" =>
               (ext.opened /\ ext.ret /\ ext.written = <<ext.pos>>)
        /\ (~ext.video.opens \/ ~ext.video.reads) =>
               (ext.result = "False" /\ ext.written = <<>>)

====
